---- MODULE Spec2Model ----
(***************************************************************************)
(* Revenue report backend (src/src/index.js): the POST /api/report and     *)
(* GET /api/orders handlers as a state machine over one request, with the  *)
(* upstream platform as the environment that answers (or fails) each call. *)
(*                                                                         *)
(* Conventions of the model                                                *)
(*   - text values that the code builds or slices are sequences of         *)
(*     one-character strings; the empty sequence stands for null, undefined*)
(*     and "" alike (all three are falsy and the code only tests them with *)
(*     ||, ?: and !);                                                       *)
(*   - money is an integer number of cents, quantities are integers; every *)
(*     upstream amount is a finite number;                                  *)
(*   - a ratio (profit_margin of a row) is an exact reduced fraction;      *)
(*   - the request's start / end / metric are TLA+ strings, Undefined for a *)
(*     field absent from the body or query.                                 *)
(***************************************************************************)
EXTENDS Integers, Sequences, FiniteSets, TLC

\* ------------------------------------------------------------------ bounds
\* Most orders the upstream holds for one request's filter.
MaxOrders == 2

\* ------------------------------------------------------- program constants
\* const limit = 250 (page size of both fetch loops)
limit == 250
\* if (totalFetched > 10000) break (safety ceiling of both fetch loops)
MaxRecords == 10000

\* --------------------------------------------------------- text primitives
NoText == <<>>
Undefined == "undefined"

STR_unknown == <<"u","n","k","n","o","w","n">>

Digits == <<"0","1","2","3","4","5","6","7","8","9">>

Digit(n) == Digits[n + 1]

\* String(n) for a non-negative integer n: its decimal digits.
RECURSIVE ToStr(_)
ToStr(n) == IF n < 10 THEN <<Digit(n)>> ELSE ToStr(n \div 10) \o <<Digit(n % 10)>>

\* n written with at least w digits (padStart(w, '0')).
Pad(n, w) ==
  LET s == ToStr(n)
  IN IF Len(s) >= w THEN s ELSE [i \in 1..(w - Len(s)) |-> "0"] \o s

\* Index of the first occurrence of character c in s, 0 when absent.
FirstIndex(s, c) ==
  IF \E i \in 1..Len(s) : s[i] = c
    THEN CHOOSE i \in 1..Len(s) : s[i] = c /\ \A j \in 1..(i - 1) : s[j] # c
    ELSE 0

\* s.replace(c, ''): removes the first occurrence of c only.
ReplaceFirst(s, c) ==
  LET i == FirstIndex(s, c) IN
  IF i = 0 THEN s ELSE SubSeq(s, 1, i - 1) \o SubSeq(s, i + 1, Len(s))

\* s.trim(): strips leading and trailing blanks.
RECURSIVE Trim(_)
Trim(s) ==
  IF s = <<>> THEN s
  ELSE IF Head(s) = " " THEN Trim(Tail(s))
  ELSE IF s[Len(s)] = " " THEN Trim(SubSeq(s, 1, Len(s) - 1))
  ELSE s

\* Characters in UTF-16 code unit order (Array.prototype.sort default).
CodeUnits == <<" ", "#", ",", "-", "0","1","2","3","4","5","6","7","8","9",
               "@", "a", "b", "k", "n", "o", "u", "w", "x", "|">>

\* Characters in the order localeCompare gives them (root collation:
\* blanks, punctuation, symbols, digits, letters).
Collation == <<" ", "-", ",", "@", "#", "|", "0","1","2","3","4","5","6","7","8","9",
               "a", "b", "k", "n", "o", "u", "w", "x">>

\* The position of each character in an order.
RankIn(order) ==
  [c \in {order[i] : i \in 1..Len(order)} |-> CHOOSE i \in 1..Len(order) : order[i] = c]

CodeUnitRank == RankIn(CodeUnits)

CollationRank == RankIn(Collation)

\* -1, 0, 1 as s sorts before, with, after t, character by character by rank.
RECURSIVE Compare(_, _, _)
Compare(rank, s, t) ==
  IF s = <<>> /\ t = <<>> THEN 0
  ELSE IF s = <<>> THEN -1
  ELSE IF t = <<>> THEN 1
  ELSE IF rank[Head(s)] < rank[Head(t)] THEN -1
  ELSE IF rank[Head(s)] > rank[Head(t)] THEN 1
  ELSE Compare(rank, Tail(s), Tail(t))

\* ------------------------------------------------------------- arithmetic
Abs(n) == IF n < 0 THEN -n ELSE n

RECURSIVE GCD(_, _)
GCD(a, b) == IF b = 0 THEN a ELSE GCD(b, a % b)

\* The exact value n / d (d > 0) as a reduced fraction.
Ratio(n, d) ==
  LET g == GCD(Abs(n), d) IN [num |-> n \div g, den |-> d \div g]

ZeroRatio == [num |-> 0, den |-> 1]

\* Math.round(x) for x = n / d, d > 0: the nearest integer, halves upward.
Round(n, d) == (2 * n + d) \div (2 * d)

\* A numeric field of an upstream object: Num(n) for the number n, Null when
\* the upstream sends null or leaves the field out.
Num(n) == <<n>>
Null == <<>>

\* Number(v) || 0 : the field as a number, 0 when it is null.
NumberOr0(v) == IF v = Null THEN 0 ELSE v[1]

RECURSIVE SumSeq(_)
SumSeq(s) == IF s = <<>> THEN 0 ELSE Head(s) + SumSeq(Tail(s))

\* ------------------------------------------------------------------ dates
\* An order's created_at as the upstream sends it: a wall-clock date and hour
\* with the shop's UTC offset in hours, [y, mo, d, h, off].
IsLeap(y) == (y % 4 = 0 /\ y % 100 # 0) \/ y % 400 = 0

DaysIn(y, mo) ==
  IF mo = 2 THEN (IF IsLeap(y) THEN 29 ELSE 28)
  ELSE IF mo \in {4, 6, 9, 11} THEN 30 ELSE 31

PrevDay(t) ==
  IF t.d > 1 THEN [t EXCEPT !.d = t.d - 1]
  ELSE IF t.mo > 1 THEN [t EXCEPT !.mo = t.mo - 1, !.d = DaysIn(t.y, t.mo - 1)]
  ELSE [t EXCEPT !.y = t.y - 1, !.mo = 12, !.d = 31]

NextDay(t) ==
  IF t.d < DaysIn(t.y, t.mo) THEN [t EXCEPT !.d = t.d + 1]
  ELSE IF t.mo < 12 THEN [t EXCEPT !.mo = t.mo + 1, !.d = 1]
  ELSE [t EXCEPT !.y = t.y + 1, !.mo = 1, !.d = 1]

\* new Date(iso): the instant, as UTC date and hour (offsets are within a day).
ToUTC(t) ==
  LET h == t.h - t.off IN
  IF h < 0 THEN [PrevDay(t) EXCEPT !.h = h + 24, !.off = 0]
  ELSE IF h >= 24 THEN [NextDay(t) EXCEPT !.h = h - 24, !.off = 0]
  ELSE [t EXCEPT !.h = h, !.off = 0]

\* Date.prototype.toISOString(): "YYYY-MM-DDTHH:00:00.000Z" of the UTC instant.
toISOString(t) ==
  LET u == ToUTC(t) IN
  Pad(u.y, 4) \o <<"-">> \o Pad(u.mo, 2) \o <<"-">> \o Pad(u.d, 2) \o <<"T">>
    \o Pad(u.h, 2) \o <<":","0","0",":","0","0",".","0","0","0","Z">>

\* .slice(0, n)
Slice0(s, n) == SubSeq(s, 1, IF Len(s) < n THEN Len(s) ELSE n)

\* monthKey taken from the timestamp as the upstream wrote it (iso.slice(0,7)),
\* in the shop's time zone.
monthKeyLocal(iso) == Pad(iso.y, 4) \o <<"-">> \o Pad(iso.mo, 2)

\* const monthKey = (iso) => new Date(iso).toISOString().slice(0,7)
monthKey(iso) == Slice0(toISOString(iso), 7)

\* The request's start / end strings the model draws from, and new Date(s) of
\* each: [valid, time] with time in seconds since the epoch, invalid for NaN.
T1 == "2024-01-01T00:00:00.000Z"
T2 == "2024-02-01T00:00:00.000Z"

NewDate(s) ==
  CASE s = T1 -> [valid |-> TRUE, time |-> 1704067200]
    [] s = T2 -> [valid |-> TRUE, time |-> 1706745600]
    [] OTHER  -> [valid |-> FALSE, time |-> 0]

\* toISOString() of a valid request date (it throws RangeError on an invalid one).
DateToISO(d) ==
  CASE d.time = 1704067200 -> T1
    [] d.time = 1706745600 -> T2

\* !v of a request field
Falsy(v) == v = Undefined \/ v = ""

\* -------------------------------------------------------------- metafields
\* A metafield is [namespace, key, value]; its value is what the parsing reads
\* of the raw text: [kind, amount, nums] with
\*   kind "number": Number(value) is the number `amount`;
\*   kind "json"  : the text starts with '{' and parses, `amount` is its amount
\*                  field (0 when absent or falsy), Number(value) is NaN;
\*   kind "text"  : Number(value) is NaN;
\* and nums the numbers the pattern /[-+]?[0-9]*\.?[0-9]+/g finds in the text.
IsAdditionalKey(m) ==
  (m.namespace = "distacart" /\ m.key = "additional_charges")
    \/ m.key = "distacart.additional_charges"

IsActualKey(m) ==
  (m.namespace = "distacart" /\ m.key = "actual_total_checkout_price")
    \/ m.key = "distacart.actual_total_checkout_price"

\* function parseAdditionalCharges(metafields)
RECURSIVE parseAdditionalCharges(_)
parseAdditionalCharges(metafields) ==
  IF metafields = <<>> THEN 0
  ELSE LET m == Head(metafields)
           v == m.value
       IN IF ~IsAdditionalKey(m) THEN parseAdditionalCharges(Tail(metafields))
          ELSE IF v.kind = "json" /\ v.amount # 0 THEN v.amount
          ELSE IF v.kind = "number" THEN v.amount
          ELSE IF v.nums # <<>> THEN SumSeq(v.nums)
          ELSE parseAdditionalCharges(Tail(metafields))

\* function parseActualTotal(metafields)
RECURSIVE parseActualTotal(_)
parseActualTotal(metafields) ==
  IF metafields = <<>> THEN 0
  ELSE LET m == Head(metafields)
           v == m.value
       IN IF ~IsActualKey(m) THEN parseActualTotal(Tail(metafields))
          ELSE IF v.kind = "json" /\ v.amount # 0 THEN v.amount
          ELSE IF v.kind = "number" THEN v.amount
          ELSE 0

\* graphqlData.data?.order?.metafields?.edges?.map(edge => edge.node) || []
\* of a metadata answer [hasData, metafields].
orderMetafieldsOf(answer) == IF answer.hasData THEN answer.metafields ELSE <<>>

\* -------------------------------------------------------------- line items
\* A line item is [price, quantity, fulfillable_quantity, fulfillment_status];
\* fulfillment_status is "null" for an item the upstream gives no status.
IsSkippedStatus(st) == st \in {"removed", "cancelled", "refunded", "returned"}

\* FallbackItemAmountWholeQuantity charges the whole quantity of the item.
FallbackItemAmountWholeQuantity(li) ==
  IF IsSkippedStatus(li.fulfillment_status) THEN 0
  ELSE NumberOr0(li.price) * NumberOr0(li.quantity)

\* What one line item adds to line_sum in the fallback of the fulfillment
\* catch block.
FallbackItemAmount(li) ==
  IF IsSkippedStatus(li.fulfillment_status) THEN 0
  ELSE LET fulfillable_qty == NumberOr0(li.fulfillable_quantity)
           total_qty       == NumberOr0(li.quantity)
       IN IF fulfillable_qty < total_qty
            THEN NumberOr0(li.price) * (total_qty - fulfillable_qty)
            ELSE 0

\* The loop over o.line_items of the fulfillment catch block, started from the
\* line_sum accumulated so far.
RECURSIVE FulfillmentFallbackLineSum(_, _)
FulfillmentFallbackLineSum(line_sum, line_items) ==
  IF line_items = <<>> THEN line_sum
  ELSE FulfillmentFallbackLineSum(line_sum + FallbackItemAmount(Head(line_items)),
                                  Tail(line_items))

\* OuterItemAmount without the test of the item's status.
OuterItemAmountAnyStatus(li) ==
  LET fulfillable_qty == NumberOr0(li.fulfillable_quantity)
      total_qty       == NumberOr0(li.quantity)
  IN IF fulfillable_qty < total_qty
       THEN NumberOr0(li.price) * (total_qty - fulfillable_qty)
       ELSE 0

\* What one line item adds to line_sum in the outer catch block (the second
\* copy of the fallback).
OuterItemAmount(li) ==
  IF IsSkippedStatus(li.fulfillment_status) THEN 0
  ELSE LET fulfillable_qty == NumberOr0(li.fulfillable_quantity)
           total_qty       == NumberOr0(li.quantity)
       IN IF fulfillable_qty < total_qty
            THEN NumberOr0(li.price) * (total_qty - fulfillable_qty)
            ELSE 0

\* The loop over o.line_items of the outer catch block, from line_sum = 0.
RECURSIVE OuterFallbackLineSum(_)
OuterFallbackLineSum(line_items) ==
  IF line_items = <<>> THEN 0
  ELSE OuterItemAmount(Head(line_items)) + OuterFallbackLineSum(Tail(line_items))

\* ------------------------------------------------------------ fulfillments
\* A fulfillment answer is [hasOrder, fulfillments]; a fulfillment is
\* [status, items], an item [quantity, amount] (originalTotalSet.shopMoney).
\* price = Number(originalTotal) / quantity || 0, then price * quantity: the
\* quotient is kept as an exact fraction; a division by 0 gives Infinity or
\* NaN, which quantity > 0 rejects.
FulfillmentItemAmount(node) ==
  LET quantity      == NumberOr0(node.quantity)
      originalTotal == NumberOr0(node.amount)
      price         == IF quantity > 0 THEN Ratio(originalTotal, quantity)
                       ELSE IF quantity < 0 THEN Ratio(-originalTotal, -quantity)
                       ELSE ZeroRatio
  IN IF quantity > 0 /\ price.num > 0 THEN (price.num * quantity) \div price.den ELSE 0

RECURSIVE FulfillmentItemsSum(_)
FulfillmentItemsSum(edges) ==
  IF edges = <<>> THEN 0
  ELSE FulfillmentItemAmount(Head(edges)) + FulfillmentItemsSum(Tail(edges))

\* FulfillmentsSumAnyStatus counts the fulfillments of every status.
RECURSIVE FulfillmentsSumAnyStatus(_)
FulfillmentsSumAnyStatus(fulfillments) ==
  IF fulfillments = <<>> THEN 0
  ELSE FulfillmentItemsSum(Head(fulfillments).items)
       + FulfillmentsSumAnyStatus(Tail(fulfillments))

\* for (const fulfillment of orderData.fulfillments): SUCCESS ones only.
RECURSIVE FulfillmentsSum(_)
FulfillmentsSum(fulfillments) ==
  IF fulfillments = <<>> THEN 0
  ELSE (IF Head(fulfillments).status = "SUCCESS"
          THEN FulfillmentItemsSum(Head(fulfillments).items) ELSE 0)
       + FulfillmentsSum(Tail(fulfillments))

\* line_sum after the fulfillment query answered.
FulfillmentLineSum(answer) ==
  IF answer.hasOrder THEN FulfillmentsSum(answer.fulfillments) ELSE 0

\* ------------------------------------------------------------ upstream data
\* The orders the upstream may hold, in ascending id. An order is
\* [id, name, created_at, customer, line_items]; customer is [present, id,
\* email] with id 0 and email NoText for null.
EmailAX == <<"a","@","x">>

Catalogue == <<
  [id |-> 1, name |-> <<"#","1","0","0","1">>,
   created_at |-> [y |-> 2024, mo |-> 1, d |-> 15, h |-> 10, off |-> 0],
   customer |-> [present |-> TRUE, id |-> 7, email |-> EmailAX],
   line_items |-> << [price |-> Num(5000), quantity |-> Num(2), fulfillable_quantity |-> Num(0),
                      fulfillment_status |-> "fulfilled"] >>],
  [id |-> 2, name |-> <<"#","1","0","0","2"," ">>,
   created_at |-> [y |-> 2024, mo |-> 1, d |-> 31, h |-> 22, off |-> -5],
   customer |-> [present |-> TRUE, id |-> 7, email |-> EmailAX],
   line_items |-> << [price |-> Num(500), quantity |-> Num(3), fulfillable_quantity |-> Num(1),
                      fulfillment_status |-> "partial"],
                     [price |-> Num(700), quantity |-> Num(1), fulfillable_quantity |-> Num(0),
                      fulfillment_status |-> "refunded"] >>],
  [id |-> 3, name |-> NoText,
   created_at |-> [y |-> 2024, mo |-> 1, d |-> 20, h |-> 0, off |-> 0],
   customer |-> [present |-> TRUE, id |-> 8, email |-> NoText],
   line_items |-> << [price |-> Num(900), quantity |-> Num(1), fulfillable_quantity |-> Null,
                      fulfillment_status |-> "null"],
                     [price |-> Num(400), quantity |-> Num(2), fulfillable_quantity |-> Num(2),
                      fulfillment_status |-> "null"] >>],
  [id |-> 4, name |-> <<"1","0","0","4">>,
   created_at |-> [y |-> 2024, mo |-> 1, d |-> 1, h |-> 2, off |-> 5],
   customer |-> [present |-> FALSE, id |-> 0, email |-> NoText],
   line_items |-> << >>],
  [id |-> 5, name |-> <<"#","1","0","0","5">>,
   created_at |-> [y |-> 2024, mo |-> 1, d |-> 25, h |-> 9, off |-> 0],
   customer |-> [present |-> TRUE, id |-> 7, email |-> EmailAX],
   line_items |-> << [price |-> Num(2500), quantity |-> Num(4), fulfillable_quantity |-> Num(0),
                      fulfillment_status |-> "fulfilled"] >>]
>>

\* The ascending id lists of at most n of the catalogue's orders.
IdLists(n) ==
  { ids \in UNION { [1..k -> 1..Len(Catalogue)] : k \in 0..n } :
      \A i \in 1..(Len(ids) - 1) : ids[i] < ids[i + 1] }

\* Answers the upstream may give to an order's metadata query.
MoneyJson(a) == [kind |-> "json", amount |-> a, nums |-> <<a>>]

MetaAnswers == {
  \* the two money metafields the seeding script writes
  [hasData |-> TRUE, metafields |-> <<
     [namespace |-> "distacart", key |-> "additional_charges", value |-> MoneyJson(1000)],
     [namespace |-> "distacart", key |-> "actual_total_checkout_price",
      value |-> MoneyJson(8000)] >>],
  \* an unrelated metafield, additional charges without a digit in them, and a
  \* plain-number actual total under the dotted key
  [hasData |-> TRUE, metafields |-> <<
     [namespace |-> "custom", key |-> "note",
      value |-> [kind |-> "text", amount |-> 0, nums |-> <<>>]],
     [namespace |-> "distacart", key |-> "additional_charges",
      value |-> [kind |-> "text", amount |-> 0, nums |-> <<>>]],
     [namespace |-> "custom", key |-> "distacart.actual_total_checkout_price",
      value |-> [kind |-> "number", amount |-> 3000, nums |-> <<3000>>]] >>],
  \* free text: additional charges holding two numbers, an actual total that
  \* is no number
  [hasData |-> TRUE, metafields |-> <<
     [namespace |-> "custom", key |-> "distacart.additional_charges",
      value |-> [kind |-> "text", amount |-> 0, nums |-> <<500, 300>>]],
     [namespace |-> "distacart", key |-> "actual_total_checkout_price",
      value |-> [kind |-> "text", amount |-> 0, nums |-> <<12000>>]] >>]
}

\* Answers the upstream may give to an order's fulfillment query.
FulfillmentAnswers == {
  [hasOrder |-> TRUE, fulfillments |-> <<
     [status |-> "CANCELLED", items |-> << [quantity |-> Num(1), amount |-> Num(5000)] >>],
     [status |-> "SUCCESS",   items |-> << [quantity |-> Num(2), amount |-> Num(10000)],
                                           [quantity |-> Num(0), amount |-> Num(0)],
                                           [quantity |-> Num(1), amount |-> Null] >>] >>],
  [hasOrder |-> FALSE, fulfillments |-> << >>]
}

\* Further answers to the fulfillment query: an order without fulfillments,
\* one whose fulfillments are all of another status than SUCCESS, one with two
\* SUCCESS fulfillments (a total that is no multiple of its quantity, a
\* negative total, a negative quantity) beside a FAILURE one, and one whose
\* SUCCESS fulfillment has no line items.
FulfillmentCases ==
  FulfillmentAnswers \cup {
    [hasOrder |-> TRUE, fulfillments |-> << >>],
    [hasOrder |-> TRUE, fulfillments |-> <<
       [status |-> "CANCELLED", items |-> << [quantity |-> Num(2), amount |-> Num(10000)] >>],
       [status |-> "PENDING",   items |-> << [quantity |-> Num(1), amount |-> Num(700)] >>] >>],
    [hasOrder |-> TRUE, fulfillments |-> <<
       [status |-> "SUCCESS", items |-> << [quantity |-> Num(3), amount |-> Num(1000)],
                                           [quantity |-> Num(2), amount |-> Num(-600)] >>],
       [status |-> "FAILURE", items |-> << [quantity |-> Num(1), amount |-> Num(900)] >>],
       [status |-> "SUCCESS", items |-> << [quantity |-> Num(-1), amount |-> Num(-500)],
                                           [quantity |-> Num(1), amount |-> Num(250)] >>] >>],
    [hasOrder |-> TRUE, fulfillments |-> << [status |-> "SUCCESS", items |-> << >>] >>]
  }

\* Upstream HTTP statuses of a failed call; 0 stands for no response at all
\* (timeout, connection error), where err.response is undefined.
FailureStatuses == {0, 429}

\* ---------------------------------------------------------- customer table
\* const customerInfo = {...}: the module's lookup table, shared by every
\* request.
VARIABLE customerInfo

STR_Customer == <<"C","u","s","t","o","m","e","r"," ","#">>
STR_null == <<"n","u","l","l">>

\* The table the module is loaded with: customer 7 is listed, 8 is not.
CustomerTable == [id \in {7} |-> [name |-> <<"A","X"," ","T","e","a","m">>, email |-> EmailAX]]

\* info ? info.name : `Customer #${customerId}`
getCustomerName(customerId) ==
  IF customerId \in DOMAIN customerInfo THEN customerInfo[customerId].name
  ELSE STR_Customer \o (IF customerId = 0 THEN STR_null ELSE ToStr(customerId))

\* -------------------------------------------------------------------- rows
\* o.name ? String(o.name).replace('#','').trim() : undefined
order_numberOf(o) == IF o.name # NoText THEN Trim(ReplaceFirst(o.name, "#")) ELSE NoText

\* o.customer?.email || null
customer_emailOf(o) == IF o.customer.present THEN o.customer.email ELSE NoText

\* o.customer?.id || null
customer_idOf(o) == IF o.customer.present THEN o.customer.id ELSE 0

\* RowProfitMargin guarded by billing >= 0: the division by a billing of 0
\* gives an infinity or NaN, written as a fraction of denominator 0.
RowProfitMarginGuardGe(billing, actual) ==
  IF billing > 0 THEN Ratio((billing - actual) * 100, billing)
  ELSE IF billing = 0 THEN [num |-> (IF actual > 0 THEN -1 ELSE 0), den |-> 0]
  ELSE ZeroRatio

\* RowProfitMargin computed as the share of the cost in the billing.
RowProfitMarginCostShare(billing, actual) ==
  IF billing > 0 THEN Ratio(actual * 100, billing) ELSE ZeroRatio

\* billing > 0 ? ((billing - actual) / billing * 100) : 0
RowProfitMargin(billing, actual) ==
  IF billing > 0 THEN Ratio((billing - actual) * 100, billing) ELSE ZeroRatio

\* BillingAmount that leaves the additional charges out.
BillingAmountLineSumOnly(line_sum, additional) == line_sum

\* const billing = line_sum + additional
BillingAmount(line_sum, additional) == line_sum + additional

\* The row pushed at the end of the try block, from the order, the metafields
\* the metadata query gave and the line_sum the fulfillment step left.
NormalRow(o, orderMetafields, line_sum) ==
  LET additional == parseAdditionalCharges(orderMetafields)
      actual     == parseActualTotal(orderMetafields)
      billing    == BillingAmount(line_sum, additional)
  IN [order_id           |-> o.id,
      order_number       |-> order_numberOf(o),
      order_date         |-> o.created_at,
      customer_id        |-> customer_idOf(o),
      customer_name      |-> getCustomerName(customer_idOf(o)),
      customer_email     |-> customer_emailOf(o),
      line_sum           |-> line_sum,
      additional_charges |-> additional,
      billing_amount     |-> billing,
      actual_spend       |-> actual,
      profit_margin      |-> RowProfitMargin(billing, actual)]

\* The row pushed by the outer catch block when the metadata query failed.
DegradedRow(o) ==
  LET line_sum == OuterFallbackLineSum(o.line_items)
  IN [order_id           |-> o.id,
      order_number       |-> order_numberOf(o),
      order_date         |-> o.created_at,
      customer_id        |-> customer_idOf(o),
      customer_name      |-> getCustomerName(customer_idOf(o)),
      customer_email     |-> customer_emailOf(o),
      line_sum           |-> line_sum,
      additional_charges |-> 0,
      billing_amount     |-> line_sum,
      actual_spend       |-> 0,
      profit_margin      |-> ZeroRatio]

\* OuterCatchRows that logs the error and pushes nothing.
OuterCatchRowsSkip(rs, o) == rs

\* rows after the outer catch block handled order o.
OuterCatchRows(rs, o) == Append(rs, DegradedRow(o))

\* ---------------------------------------------------------------- grouping
\* r.customer_email || String(r.customer_id || 'unknown')
customerKeyOf(r) ==
  IF r.customer_email # NoText THEN r.customer_email
  ELSE IF r.customer_id # 0 THEN ToStr(r.customer_id)
  ELSE STR_unknown

\* const key = customerKey + '|' + month
GroupKey(customerKey, month) == customerKey \o <<"|">> \o month

\* MetricOf that always reads billing_amount.
MetricOfBillingOnly(r, metric) == r.billing_amount

\* const metricField = metric === 'actual' ? 'actual_spend' : 'billing_amount';
\* Number(r[metricField] || 0)
MetricOf(r, metric) == IF metric = "actual" THEN r.actual_spend ELSE r.billing_amount

\* Index in the groups list (the Map, in insertion order) of the group with
\* this key, 0 when the Map has none.
GroupIndex(groups, key) ==
  IF \E i \in 1..Len(groups) : groups[i].key = key
    THEN CHOOSE i \in 1..Len(groups) : groups[i].key = key
    ELSE 0

\* One pass of `for (const r of rows)`: creates the group at first sight of the
\* key, then accumulates the row into it.
AddRow(groups, r, metric) ==
  LET month       == monthKey(r.order_date)
      customerKey == customerKeyOf(r)
      key         == GroupKey(customerKey, month)
      fresh       == [key |-> key, customer |-> customerKey, month |-> month,
                      orders |-> 0, amount |-> 0, order_numbers |-> {},
                      total_billing |-> 0, total_actual |-> 0]
      gs          == IF GroupIndex(groups, key) = 0 THEN Append(groups, fresh) ELSE groups
      i           == GroupIndex(gs, key)
      g           == gs[i]
  IN [gs EXCEPT ![i] =
        [g EXCEPT !.orders = g.orders + 1,
                  !.amount = g.amount + MetricOf(r, metric),
                  !.total_billing = g.total_billing + r.billing_amount,
                  !.total_actual = g.total_actual + r.actual_spend,
                  !.order_numbers = IF r.order_number # NoText
                                      THEN g.order_numbers \cup {r.order_number}
                                      ELSE g.order_numbers]]

RECURSIVE GroupRows(_, _, _)
GroupRows(groups, rs, metric) ==
  IF rs = <<>> THEN groups
  ELSE GroupRows(AddRow(groups, Head(rs), metric), Tail(rs), metric)

\* ----------------------------------------------------------------- summary
\* Array.from(set).sort(): the set's texts in code unit order.
RECURSIVE SortedTexts(_)
SortedTexts(S) ==
  IF S = {} THEN <<>>
  ELSE LET m == CHOOSE x \in S : \A y \in S : Compare(CodeUnitRank, x, y) <= 0
       IN <<m>> \o SortedTexts(S \ {m})

\* .join(', ')
RECURSIVE Join(_)
Join(texts) ==
  IF texts = <<>> THEN <<>>
  ELSE IF Len(texts) = 1 THEN Head(texts)
  ELSE Head(texts) \o <<",", " ">> \o Join(Tail(texts))

\* Math.round(x * 100) / 100 for x = n / d, d > 0.
Round2(n, d) == Ratio(Round(n * 100, d), 100)

\* GroupProfitMarginOfAmount takes the margin from the selected metric's total.
GroupProfitMarginOfAmount(g) ==
  IF g.amount > 0
    THEN Round2((g.amount - g.total_actual) * 100, g.amount)
    ELSE ZeroRatio

\* g.total_billing > 0 ? ((g.total_billing - g.total_actual) / g.total_billing * 100) : 0,
\* then Math.round(profit_margin * 100) / 100
GroupProfitMargin(g) ==
  IF g.total_billing > 0
    THEN Round2((g.total_billing - g.total_actual) * 100, g.total_billing)
    ELSE ZeroRatio

\* The object the .map() callback returns for a group.
SummaryEntry(g) ==
  [customer      |-> g.customer,
   month         |-> g.month,
   orders        |-> g.orders,
   amount        |-> g.amount,
   order_numbers |-> Join(SortedTexts(g.order_numbers)),
   total_billing |-> g.total_billing,
   total_actual  |-> g.total_actual,
   profit_margin |-> GroupProfitMargin(g)]

\* SummaryBeforeByCustomer compares the customers first, then the months.
SummaryBeforeByCustomer(a, b) ==
  LET c == Compare(CollationRank, a.customer, b.customer)
  IN IF c # 0 THEN c < 0 ELSE Compare(CollationRank, a.month, b.month) < 0

\* a.month.localeCompare(b.month) || String(a.customer).localeCompare(String(b.customer)) < 0
SummaryBefore(a, b) ==
  LET c == Compare(CollationRank, a.month, b.month)
  IN IF c # 0 THEN c < 0 ELSE Compare(CollationRank, a.customer, b.customer) < 0

\* Stable insertion of x into the sorted list s (x goes after every element
\* that does not sort after it).
RECURSIVE InsertSorted(_, _)
InsertSorted(s, x) ==
  IF s = <<>> THEN <<x>>
  ELSE IF SummaryBefore(x, Head(s)) THEN <<x>> \o s
  ELSE <<Head(s)>> \o InsertSorted(Tail(s), x)

\* .sort((a,b) => ...): Array.prototype.sort is stable.
RECURSIVE SortSummary(_)
SortSummary(s) ==
  IF s = <<>> THEN <<>>
  ELSE InsertSorted(SortSummary(SubSeq(s, 1, Len(s) - 1)), s[Len(s)])

\* Array.from(groups.values()).map(...).sort(...)
SummaryOf(groups) ==
  SortSummary([i \in 1..Len(groups) |-> SummaryEntry(groups[i])])

\* --------------------------------------------------------------- analytics
\* A two-decimal ratio as its number of hundredths.
Hundredths(r) == r.num * (100 \div r.den)

\* AnalyticsOf with uniqueCustomers counting the groups.
AnalyticsOfCountingGroups(summary, req) ==
  LET amounts == [i \in 1..Len(summary) |-> summary[i].amount]
      counts  == [i \in 1..Len(summary) |-> summary[i].orders]
      margins == [i \in 1..Len(summary) |-> Hundredths(summary[i].profit_margin)]
  IN [totalRevenue    |-> SumSeq(amounts),
      totalOrders     |-> SumSeq(counts),
      uniqueCustomers |-> Len(summary),
      avgProfitMargin |-> IF Len(summary) > 0
                            THEN Round2(SumSeq(margins), 100 * Len(summary))
                            ELSE ZeroRatio,
      dateRange       |-> [start |-> req.start, end |-> req.end],
      metric          |-> req.metric,
      customerId      |-> req.customerId]

\* The analytics object, from the sorted summary.
AnalyticsOf(summary, req) ==
  LET amounts == [i \in 1..Len(summary) |-> summary[i].amount]
      counts  == [i \in 1..Len(summary) |-> summary[i].orders]
      margins == [i \in 1..Len(summary) |-> Hundredths(summary[i].profit_margin)]
  IN [totalRevenue    |-> SumSeq(amounts),
      totalOrders     |-> SumSeq(counts),
      uniqueCustomers |-> Cardinality({summary[i].customer : i \in 1..Len(summary)}),
      avgProfitMargin |-> IF Len(summary) > 0
                            THEN Round2(SumSeq(margins), 100 * Len(summary))
                            ELSE ZeroRatio,
      dateRange       |-> [start |-> req.start, end |-> req.end],
      metric          |-> req.metric,
      customerId      |-> req.customerId]

\* The body of the successful report response, from the rows and the request.
ReportBody(rs, req) ==
  LET summary == SummaryOf(GroupRows(<<>>, rs, req.metric))
  IN [summary   |-> summary,
      detail    |-> rs,
      analytics |-> AnalyticsOf(summary, req),
      metadata  |-> [totalRecords |-> Len(rs), summaryRecords |-> Len(summary)]]

\* =================================================================== state
VARIABLES
  pc,              \* where the handler stands: "idle", "page" / "metadata" /
                   \* "fulfillment" (awaiting that upstream answer), "delay", "done"
  endpoint,        \* "none", "report" (POST /api/report) or "orders" (GET /api/orders)
  req,             \* the request's fields [start, end, metric, customerId]
  orders,          \* const orders = []
  since_id,        \* let since_id = null (0 for null)
  totalFetched,    \* let totalFetched = 0
  rows,            \* const rows = []
  idx,             \* position of `o` in `for (const o of orders)`, 0 outside the loop
  orderMetafields, \* the metafields of the current order once its query answered
  calls,           \* every upstream call issued so far, in order
  response,        \* the HTTP response sent, status 0 while none is
  matching,        \* how many orders of the shop match the request's filter
  parked           \* the local state of the other request in flight, suspended
                   \* at its await

vars == <<pc, endpoint, req, orders, since_id, totalFetched, rows, idx,
          orderMetafields, calls, response, matching, parked, customerInfo>>

NoRequest == [start |-> Undefined, end |-> Undefined, metric |-> Undefined,
              customerId |-> Undefined]

NoResponse == [status |-> 0, kind |-> "none"]

\* Values a request may carry in start / end, in metric and in customerId.
DateInputs == {Undefined, "not-a-date", T1, T2}
\* The report handler never compares start with end, so one valid end is
\* enough there: a start before it (T1) and a start not before it (T2).
ReportEndInputs == {Undefined, "not-a-date", T2}
MetricInputs == {Undefined, "other", "billing", "actual"}
CustomerIdInputs == {Undefined}

\* No other request is in flight.
NoContext == [id |-> 0]

Init ==
  /\ pc = "idle"
  /\ endpoint = "none"
  /\ req = NoRequest
  /\ orders = <<>>
  /\ since_id = 0
  /\ totalFetched = 0
  /\ rows = <<>>
  /\ idx = 0
  /\ orderMetafields = <<>>
  /\ calls = <<>>
  /\ response = NoResponse
  /\ matching = 0
  /\ parked = NoContext
  /\ customerInfo = CustomerTable

\* ------------------------------------------------------------ upstream calls
\* The answer field of a call not answered (yet).
NoAnswer == <<>>

\* shopify().get(`orders.json?${requestParams}`): the filter of the request and
\* the cursor, since_id set only `if (since_id)`; status is the HTTP status of
\* the upstream's error answer once the call failed with one.
PageCall(r, cursor) ==
  [kind |-> "page", outcome |-> "pending", answer |-> NoAnswer, status |-> 0, limit |-> limit,
   created_at_min |-> DateToISO(NewDate(r.start)),
   created_at_max |-> DateToISO(NewDate(r.end)),
   customer_id |-> r.customerId, since_id |-> cursor]

\* shopify().post('graphql.json', {query, variables: {id}}) of the metadata query
MetadataCall(o) ==
  [kind |-> "metadata", outcome |-> "pending", answer |-> NoAnswer, order |-> o.id]

\* FulfillmentCallAsRetry issues the order's metadata query a second time.
FulfillmentCallAsRetry(o) ==
  [kind |-> "metadata", outcome |-> "pending", answer |-> NoAnswer, order |-> o.id]

\* shopify().post('graphql.json', {query: fulfillmentQuery})
FulfillmentCall(o) ==
  [kind |-> "fulfillment", outcome |-> "pending", answer |-> NoAnswer, order |-> o.id]

\* The outstanding call (the last one issued) is answered or fails.
Settle(cs, outcome) == [cs EXCEPT ![Len(cs)].outcome = outcome]

\* The outstanding call is answered: the log keeps what the upstream gave (the
\* orders of a page, the graphqlData of a query).
SettleAnswer(cs, answer) ==
  [cs EXCEPT ![Len(cs)].outcome = "ok", ![Len(cs)].answer = answer]

\* The outstanding page request fails: with the upstream's error status, or
\* with none (0) when the upstream did not answer.
SettleFailed(cs, status) ==
  [cs EXCEPT ![Len(cs)].outcome = "failed", ![Len(cs)].status = status]

\* The orders of an upstream page answer: catalogue orders in ascending id,
\* all beyond the cursor the request carried.
Chunk(ids) == [i \in 1..Len(ids) |-> Catalogue[ids[i]]]

AllChunks == IdLists(MaxOrders)

ChunksAfter(cursor) ==
  { ids \in AllChunks : \A i \in 1..Len(ids) : Catalogue[ids[i]].id > cursor }

\* ----------------------------------------------------------- error response
\* catch (err): status err?.response?.status || 500 (upstream 0: no response).
\* ErrorResponseAlways500 ignores the upstream's status.
ErrorResponseAlways500(upstreamStatus) == [status |-> 500, kind |-> "error"]

ErrorResponse(upstreamStatus) ==
  [status |-> IF upstreamStatus # 0 THEN upstreamStatus ELSE 500, kind |-> "error"]

BadRequest(why) == [status |-> 400, kind |-> why]

\* ======================================================== POST /api/report
\* Sends the successful report: grouping, summary, analytics, res.json.
SendReport(rs) ==
  /\ response' = [status |-> 200, kind |-> "report", body |-> ReportBody(rs, req)]
  /\ pc' = "done"

\* Leaves order number i behind with the rows rs and the call log cs: the
\* loop's next iteration issues the next order's metadata query, or the loop
\* ends and the report is sent.
NextOrder(i, os, rs, cs) ==
  IF i < Len(os)
    THEN /\ idx' = i + 1
         /\ calls' = Append(cs, MetadataCall(os[i + 1]))
         /\ pc' = "metadata"
         /\ UNCHANGED response
    ELSE /\ idx' = 0
         /\ calls' = cs
         /\ SendReport(rs)

\* ReportValidation with the metric only tested for presence.
ReportValidationAnyMetric(start, end, metric) ==
  IF Falsy(start) \/ Falsy(end) \/ Falsy(metric) THEN "missing" ELSE "ok"

\* The validation of the request body: "missing", "metric" or "ok".
ReportValidation(start, end, metric) ==
  IF Falsy(start) \/ Falsy(end) \/ Falsy(metric) THEN "missing"
  ELSE IF metric \notin {"billing", "actual"} THEN "metric"
  ELSE "ok"

\* The handler from its entry to its first await: validation of the body, the
\* query parameters, the first page request.
PostReport(start, end, metric, customerId) ==
  /\ pc = "idle"
  /\ endpoint' = "report"
  /\ req' = [start |-> start, end |-> end, metric |-> metric, customerId |-> customerId]
  /\ UNCHANGED <<orders, since_id, totalFetched, rows, idx, orderMetafields, matching, parked, customerInfo>>
  /\ IF ReportValidation(start, end, metric) # "ok"
       THEN /\ response' = BadRequest(ReportValidation(start, end, metric))
            /\ pc' = "done"
            /\ UNCHANGED calls
     ELSE IF ~NewDate(start).valid \/ ~NewDate(end).valid
       \* new Date(start).toISOString() throws RangeError: the handler's catch
       THEN /\ response' = ErrorResponse(0)
            /\ pc' = "done"
            /\ UNCHANGED calls
     ELSE /\ calls' = Append(calls, PageCall(req', 0))
          /\ pc' = "page"
          /\ UNCHANGED response

\* if (chunk.length < limit) break; ... if (totalFetched > 10000) break;
\* whether the loop goes round again after a chunk of chunkLength orders
\* brought the count to fetched.  HasMoreNoCeiling is the loop without its
\* safety limit.
HasMoreNoCeiling(chunkLength, fetched) == ~(chunkLength < limit)

HasMore(chunkLength, fetched) ==
  ~(chunkLength < limit) /\ ~(fetched > MaxRecords)

\* since_id = chunk[chunk.length - 1].id, reached only past the first break.
\* NextCursorFirst takes the id of the chunk's first order.
NextCursorFirst(chunk, cursor) ==
  IF Len(chunk) < limit THEN cursor ELSE chunk[1].id

NextCursor(chunk, cursor) ==
  IF Len(chunk) < limit THEN cursor ELSE chunk[Len(chunk)].id

\* The fetch loop's body after the await, on the chunk the page request gave:
\* then either the next page request or the start of the enrichment loop.
ReportPageStep(chunk) ==
  LET os       == orders \o chunk
      fetched  == totalFetched + Len(chunk)
      cursor   == NextCursor(chunk, since_id)
  IN /\ orders' = os
     /\ totalFetched' = fetched
     /\ since_id' = cursor
     /\ UNCHANGED <<endpoint, req, rows, orderMetafields, matching, parked, customerInfo>>
     /\ IF HasMore(Len(chunk), fetched)
          THEN /\ calls' = Append(SettleAnswer(calls, chunk), PageCall(req, cursor))
               /\ UNCHANGED <<pc, idx, response>>
          ELSE NextOrder(0, os, rows, SettleAnswer(calls, chunk))

\* A page request answers with a chunk of catalogue orders.
ReportPageOk ==
  /\ pc = "page" /\ endpoint = "report"
  /\ \E ids \in ChunksAfter(since_id) : ReportPageStep(Chunk(ids))

\* A page request fails: the error leaves the loop and reaches the handler's
\* catch.
ReportPageFail(status) ==
  /\ pc = "page" /\ endpoint = "report"
  /\ response' = ErrorResponse(status)
  /\ pc' = "done"
  /\ calls' = SettleFailed(calls, status)
  /\ UNCHANGED <<matching, parked, customerInfo, endpoint, req, orders, since_id, totalFetched, rows, idx,
                 orderMetafields>>

\* The metadata query of the current order answers: its metafields are kept
\* and the fulfillment query is issued.
MetadataOk(answer) ==
  /\ pc = "metadata"
  /\ orderMetafields' = orderMetafieldsOf(answer)
  /\ calls' = Append(SettleAnswer(calls, answer), FulfillmentCall(orders[idx]))
  /\ pc' = "fulfillment"
  /\ UNCHANGED <<matching, parked, customerInfo, endpoint, req, orders, since_id, totalFetched, rows, idx, response>>

\* The metadata query fails: the outer catch pushes the degraded row and the
\* loop goes on (the delay is inside the try block and is skipped).
MetadataFail ==
  /\ pc = "metadata"
  /\ LET rs == OuterCatchRows(rows, orders[idx])
     IN /\ rows' = rs
        /\ NextOrder(idx, orders, rs, Settle(calls, "failed"))
  /\ orderMetafields' = <<>>
  /\ UNCHANGED <<matching, parked, customerInfo, endpoint, req, orders, since_id, totalFetched>>

\* FulfillmentOkWithFallback takes the line-item fallback when the answer
\* leaves line_sum at 0.
FulfillmentOkWithFallback(answer) ==
  /\ pc = "fulfillment"
  /\ rows' = Append(rows, NormalRow(orders[idx], orderMetafields,
                       IF FulfillmentLineSum(answer) = 0
                         THEN FulfillmentFallbackLineSum(0, orders[idx].line_items)
                         ELSE FulfillmentLineSum(answer)))
  /\ pc' = "delay"
  /\ calls' = SettleAnswer(calls, answer)
  /\ UNCHANGED <<matching, parked, customerInfo, endpoint, req, orders, since_id,
                 totalFetched, idx, orderMetafields, response>>

\* The fulfillment query answers: line_sum from the fulfillments, the row, then
\* the 50 ms delay.
FulfillmentOk(answer) ==
  /\ pc = "fulfillment"
  /\ rows' = Append(rows, NormalRow(orders[idx], orderMetafields,
                                    FulfillmentLineSum(answer)))
  /\ pc' = "delay"
  /\ calls' = SettleAnswer(calls, answer)
  /\ UNCHANGED <<matching, parked, customerInfo, endpoint, req, orders, since_id, totalFetched, idx,
                 orderMetafields, response>>

\* The fulfillment query fails: line_sum from the order's line items, the row,
\* then the 50 ms delay.
FulfillmentFail ==
  /\ pc = "fulfillment"
  /\ rows' = Append(rows, NormalRow(orders[idx], orderMetafields,
                                    FulfillmentFallbackLineSum(0, orders[idx].line_items)))
  /\ pc' = "delay"
  /\ calls' = Settle(calls, "failed")
  /\ UNCHANGED <<matching, parked, customerInfo, endpoint, req, orders, since_id, totalFetched, idx,
                 orderMetafields, response>>

\* await new Promise(resolve => setTimeout(resolve, 50)) resolves.
DelayElapsed ==
  /\ pc = "delay"
  /\ NextOrder(idx, orders, rows, calls)
  /\ orderMetafields' = <<>>
  /\ UNCHANGED <<matching, parked, customerInfo, endpoint, req, orders, since_id, totalFetched, rows>>

\* ========================================================= GET /api/orders
\* OrdersValidation with the range test startDate > endDate.
OrdersValidationStrict(start, end) ==
  IF Falsy(start) \/ Falsy(end) THEN "missing"
  ELSE IF ~NewDate(start).valid \/ ~NewDate(end).valid THEN "date"
  ELSE IF NewDate(start).time > NewDate(end).time THEN "range"
  ELSE "ok"

\* The validation of the query: "missing", "date", "range" or "ok".
OrdersValidation(start, end) ==
  IF Falsy(start) \/ Falsy(end) THEN "missing"
  ELSE IF ~NewDate(start).valid \/ ~NewDate(end).valid THEN "date"
  ELSE IF NewDate(start).time >= NewDate(end).time THEN "range"
  ELSE "ok"

\* The handler from its entry to its first await.
GetOrders(start, end, customerId) ==
  /\ pc = "idle"
  /\ endpoint' = "orders"
  /\ req' = [start |-> start, end |-> end, metric |-> Undefined, customerId |-> customerId]
  /\ UNCHANGED <<orders, since_id, totalFetched, rows, idx, orderMetafields, matching, parked, customerInfo>>
  /\ IF OrdersValidation(start, end) # "ok"
       THEN /\ response' = BadRequest(OrdersValidation(start, end))
            /\ pc' = "done"
            /\ UNCHANGED calls
     ELSE /\ calls' = Append(calls, PageCall(req', 0))
          /\ pc' = "page"
          /\ UNCHANGED response

\* The fetch loop's body after the await: the next page request, or the
\* response with the orders collected.
OrdersPageStep(chunk) ==
  LET os       == orders \o chunk
      fetched  == totalFetched + Len(chunk)
      cursor   == NextCursor(chunk, since_id)
  IN /\ orders' = os
     /\ totalFetched' = fetched
     /\ since_id' = cursor
     /\ UNCHANGED <<endpoint, req, rows, idx, orderMetafields, matching, parked, customerInfo>>
     /\ IF HasMore(Len(chunk), fetched)
          THEN /\ calls' = Append(SettleAnswer(calls, chunk), PageCall(req, cursor))
               /\ UNCHANGED <<pc, response>>
          ELSE /\ response' = [status |-> 200, kind |-> "orders",
                               body |-> [orders |-> os, count |-> Len(os),
                                         dateRange |-> [start |-> req.start, end |-> req.end],
                                         customerId |-> req.customerId]]
               /\ pc' = "done"
               /\ calls' = SettleAnswer(calls, chunk)

OrdersPageOk ==
  /\ pc = "page" /\ endpoint = "orders"
  /\ \E ids \in ChunksAfter(since_id) : OrdersPageStep(Chunk(ids))

OrdersPageFail(status) ==
  /\ pc = "page" /\ endpoint = "orders"
  /\ response' = ErrorResponse(status)
  /\ pc' = "done"
  /\ calls' = SettleFailed(calls, status)
  /\ UNCHANGED <<matching, parked, customerInfo, endpoint, req, orders, since_id, totalFetched, rows, idx,
                 orderMetafields>>

\* ==================================================================== spec
Next ==
  \/ \E start \in DateInputs, end \in ReportEndInputs, metric \in MetricInputs,
        customerId \in CustomerIdInputs : PostReport(start, end, metric, customerId)
  \/ ReportPageOk
  \/ \E status \in FailureStatuses : ReportPageFail(status)
  \/ \E answer \in MetaAnswers : MetadataOk(answer)
  \/ MetadataFail
  \/ \E answer \in FulfillmentAnswers : FulfillmentOk(answer)
  \/ FulfillmentFail
  \/ DelayElapsed
  \/ \E start \in DateInputs, end \in DateInputs, customerId \in CustomerIdInputs :
        GetOrders(start, end, customerId)
  \/ OrdersPageOk
  \/ \E status \in FailureStatuses : OrdersPageFail(status)

Spec == Init /\ [][Next]_vars

\* ============================================ the fetch phase against a shop
\* The shop holds `matching` orders that pass the request's filter; the k-th
\* of them in ascending id has the id ShopId(k).  The fetch loop reads an
\* order's id and nothing else.
ShopId(k) == 7 * k

ShopOrder(k) == [id |-> ShopId(k)]

\* Shop sizes around a page, around the safety limit, and past it.
MatchingCounts ==
  {0, 1, limit, limit + 1, MaxRecords, MaxRecords + 1,
   MaxRecords + limit, MaxRecords + limit + 1}

\* The upstream's answer to orders.json?limit=250&since_id=cursor: the
\* matching orders of lowest id greater than the cursor, at most `limit`.
UpstreamPage(n, cursor) ==
  LET first == (cursor \div 7) + 1
      last  == IF first + limit - 1 < n THEN first + limit - 1 ELSE n
  IN [i \in 1..(last - first + 1) |-> ShopOrder(first + i - 1)]

FetchCustomerIds == {Undefined, "7"}

FetchInit ==
  /\ pc = "idle"
  /\ endpoint = "none"
  /\ req = NoRequest
  /\ orders = <<>>
  /\ since_id = 0
  /\ totalFetched = 0
  /\ rows = <<>>
  /\ idx = 0
  /\ orderMetafields = <<>>
  /\ calls = <<>>
  /\ response = NoResponse
  /\ matching \in MatchingCounts
  /\ parked = NoContext
  /\ customerInfo = CustomerTable

\* A page request of the report handler is answered by the shop.
ReportShopPage ==
  /\ pc = "page" /\ endpoint = "report"
  /\ ReportPageStep(UpstreamPage(matching, since_id))

\* A page request of the orders handler is answered by the shop.
OrdersShopPage ==
  /\ pc = "page" /\ endpoint = "orders"
  /\ OrdersPageStep(UpstreamPage(matching, since_id))

\* Both handlers up to the end of their fetch loop: the report handler is
\* followed to its first enrichment call.
FetchNext ==
  \/ \E metric \in {"billing", "actual"}, customerId \in FetchCustomerIds :
        PostReport(T1, T2, metric, customerId)
  \/ \E customerId \in FetchCustomerIds : GetOrders(T1, T2, customerId)
  \/ ReportShopPage
  \/ OrdersShopPage
  \/ \E status \in FailureStatuses : ReportPageFail(status)
  \/ \E status \in FailureStatuses : OrdersPageFail(status)

\* Every page request returns: an outstanding one is answered or fails.
FetchSpec ==
  /\ FetchInit /\ [][FetchNext]_vars
  /\ WF_vars(ReportShopPage) /\ WF_vars(OrdersShopPage)

\* ================================================ two requests in flight
\* Node runs one handler at a time and leaves it only at an await, so every
\* action above is one uninterrupted turn.  With two requests in flight the
\* variables hold the locals of the one whose turn it is and `parked` those
\* of the other; between two turns the event loop may resume either.

\* The locals of the request whose turn it is (everything declared inside the
\* handler, with req and res).
Context(id) ==
  [id |-> id, pc |-> pc, endpoint |-> endpoint, req |-> req, orders |-> orders,
   since_id |-> since_id, totalFetched |-> totalFetched, rows |-> rows, idx |-> idx,
   orderMetafields |-> orderMetafields, calls |-> calls, response |-> response]

\* A request not received yet.
IdleContext(id) ==
  [id |-> id, pc |-> "idle", endpoint |-> "none", req |-> NoRequest, orders |-> <<>>,
   since_id |-> 0, totalFetched |-> 0, rows |-> <<>>, idx |-> 0,
   orderMetafields |-> <<>>, calls |-> <<>>, response |-> NoResponse]

\* The id of the request whose turn it is.
Running == 3 - parked.id

\* `const rows = []` is declared inside the handler: the request resumed finds
\* its own rows.  RowsOnResumeShared is rows declared at module level, where
\* the request resumed finds the rows the other one left.
RowsOnResumeShared(own, left) == left

RowsOnResume(own, left) == own

\* The event loop resumes the other request.
Switch ==
  /\ parked.id # 0
  /\ parked' = Context(Running)
  /\ pc' = parked.pc
  /\ endpoint' = parked.endpoint
  /\ req' = parked.req
  /\ orders' = parked.orders
  /\ since_id' = parked.since_id
  /\ totalFetched' = parked.totalFetched
  /\ rows' = RowsOnResume(parked.rows, rows)
  /\ idx' = parked.idx
  /\ orderMetafields' = parked.orderMetafields
  /\ calls' = parked.calls
  /\ response' = parked.response
  /\ UNCHANGED <<matching, customerInfo>>

ConcInit ==
  /\ pc = "idle"
  /\ endpoint = "none"
  /\ req = NoRequest
  /\ orders = <<>>
  /\ since_id = 0
  /\ totalFetched = 0
  /\ rows = <<>>
  /\ idx = 0
  /\ orderMetafields = <<>>
  /\ calls = <<>>
  /\ response = NoResponse
  /\ matching = 0
  /\ parked = IdleContext(2)
  /\ customerInfo = CustomerTable

\* Pages of at most one order.
ConcChunks == IdLists(1)

ConcReportPage ==
  /\ pc = "page" /\ endpoint = "report"
  /\ \E ids \in ConcChunks : ReportPageStep(Chunk(ids))

ConcOrdersPage ==
  /\ pc = "page" /\ endpoint = "orders"
  /\ \E ids \in ConcChunks : OrdersPageStep(Chunk(ids))

ConcNext ==
  \/ \E metric \in {"billing", "actual"} : PostReport(T1, T2, metric, Undefined)
  \/ GetOrders(T1, T2, Undefined)
  \/ ConcReportPage
  \/ ConcOrdersPage
  \/ \E status \in FailureStatuses : ReportPageFail(status)
  \/ \E status \in FailureStatuses : OrdersPageFail(status)
  \/ \E answer \in MetaAnswers : MetadataOk(answer)
  \/ MetadataFail
  \/ \E answer \in FulfillmentAnswers : FulfillmentOk(answer)
  \/ FulfillmentFail
  \/ DelayElapsed
  \/ Switch

ConcSpec == ConcInit /\ [][ConcNext]_vars

\* ============================================ enrichment of a single order
\* The report handler over pages of at most one order, with every answer the
\* fulfillment query may give.
EnrichNext ==
  \/ \E metric \in {"billing", "actual"} : PostReport(T1, T2, metric, Undefined)
  \/ ConcReportPage
  \/ \E status \in FailureStatuses : ReportPageFail(status)
  \/ \E answer \in MetaAnswers : MetadataOk(answer)
  \/ MetadataFail
  \/ \E answer \in FulfillmentCases : FulfillmentOk(answer)
  \/ FulfillmentFail
  \/ DelayElapsed

EnrichSpec == Init /\ [][EnrichNext]_vars

\* ================================================================== claims
IsUpstreamCall(c) == c.kind \in {"page", "metadata", "fulfillment"}

NoUpstreamCall == \A i \in 1..Len(calls) : ~IsUpstreamCall(calls[i])

Answered == pc = "done"

\* C1: POST /api/report with start, end or metric missing, or with a metric
\* other than "billing" and "actual", is answered 400 and no upstream call
\* (page, metadata or fulfillment) has been issued for it.
C1_InvalidBodyIs400 ==
  (endpoint = "report"
     /\ (req.start \in {Undefined, ""} \/ req.end \in {Undefined, ""}
           \/ req.metric \in {Undefined, ""}
           \/ req.metric \notin {"billing", "actual"}))
    => (Answered /\ response.status = 400 /\ NoUpstreamCall)

\* C1 happens: a request with valid dates and the metric "other" was refused.
C1_Witness ==
  /\ endpoint = "report" /\ Answered
  /\ req.start = T1 /\ req.end = T2 /\ req.metric = "other"
  /\ response.status = 400

\* The date-time a request field denotes, as the claims read it.
ValidDateTime(v) == v \in {T1, T2}

StrictlyBefore(a, b) == a = T1 /\ b = T2

\* C2 (as claimed): POST /api/report with a start or end that is no valid
\* date-time, or with start not strictly before end, is answered 400 and no
\* upstream call is issued for it, whatever the metric.
C2_InvalidDatesAre400 ==
  (endpoint = "report"
     /\ (~ValidDateTime(req.start) \/ ~ValidDateTime(req.end)
           \/ ~StrictlyBefore(req.start, req.end)))
    => (NoUpstreamCall /\ (Answered => response.status = 400))

\* C3: GET /api/orders with start or end missing or unparsable, or with
\* start >= end, is answered 400 and no page request is issued; any other
\* request has issued at least one page request.
C3_OrdersValidation ==
  endpoint = "orders" =>
    IF ~ValidDateTime(req.start) \/ ~ValidDateTime(req.end)
         \/ ~StrictlyBefore(req.start, req.end)
      THEN Answered /\ response.status = 400 /\ NoUpstreamCall
      ELSE Len(calls) >= 1 /\ calls[1].kind = "page"

\* C3 happens: a request with two valid dates, start after end, was refused.
C3_Witness ==
  /\ endpoint = "orders" /\ Answered
  /\ req.start = T2 /\ req.end = T1
  /\ response.status = 400 /\ calls = <<>>

\* ------------------------------------------------------------ rows and calls
\* The rows a claim about `detail` speaks of: those pushed so far and, once the
\* report is sent, the response's detail list.
Detail == IF response.kind = "report" THEN response.body.detail ELSE rows

\* The outcome of the call of this kind issued for the order with this id:
\* "none" when no such call was issued.
OutcomeOf(kind, id) ==
  IF \E i \in 1..Len(calls) : calls[i].kind = kind /\ calls[i].order = id
    THEN LET i == CHOOSE i \in 1..Len(calls) : calls[i].kind = kind /\ calls[i].order = id
         IN calls[i].outcome
    ELSE "none"

CallsOfKind(kind) == {i \in 1..Len(calls) : calls[i].kind = kind}

EnrichmentStarted == CallsOfKind("metadata") # {}

\* Number of orders whose enrichment is complete.
OrdersHandled ==
  IF pc = "done" THEN Len(orders)
  ELSE IF pc = "delay" THEN idx
  ELSE idx - 1

\* C4: once the fetch phase has succeeded, whatever the outcome of each
\* metadata and fulfillment call, no error response is ever sent, the rows
\* pushed so far are exactly the orders handled so far, in fetch order, and the
\* request ends with the 200 report whose detail has one row per fetched order.
C4_OneRowPerOrder ==
  (endpoint = "report" /\ (EnrichmentStarted \/ response.kind = "report")) =>
    /\ response.kind \in {"none", "report"}
    /\ Len(Detail) = OrdersHandled
    /\ \A i \in 1..Len(Detail) : Detail[i].order_id = orders[i].id
    /\ Answered => /\ response.status = 200
                   /\ Len(response.body.detail) = Len(orders)

\* C4 happens: a report was sent for two orders, the metadata query of one and
\* the fulfillment query of the other having failed.
C4_Witness ==
  /\ endpoint = "report" /\ Answered /\ response.status = 200
  /\ Len(orders) = 2
  /\ OutcomeOf("metadata", orders[1].id) = "failed"
  /\ OutcomeOf("fulfillment", orders[2].id) = "failed"
  /\ Len(response.body.detail) = 2

\* What the line-item fallback of the fulfillment catch (step 3) gives for an
\* order's own line items.
Step3LineSum(o) == FulfillmentFallbackLineSum(0, o.line_items)

\* C5: the row of an order whose metadata query failed is in detail with
\* additional_charges = 0, actual_spend = 0, profit_margin = 0,
\* billing_amount = line_sum, and line_sum what the step 3 fallback computes
\* from the order's line items; the two copies of the fallback agree on every
\* fetched order.
C5_MetadataFailureRow ==
  \A k \in 1..Len(orders) :
    /\ OuterFallbackLineSum(orders[k].line_items) = Step3LineSum(orders[k])
    /\ (endpoint = "report" /\ OutcomeOf("metadata", orders[k].id) = "failed") =>
         /\ k <= Len(Detail)
         /\ Detail[k].order_id = orders[k].id
         /\ Detail[k].additional_charges = 0
         /\ Detail[k].actual_spend = 0
         /\ Detail[k].profit_margin = ZeroRatio
         /\ Detail[k].billing_amount = Detail[k].line_sum
         /\ Detail[k].line_sum = Step3LineSum(orders[k])

\* C5 happens: the metadata query failed for an order that has a refunded line
\* item next to a partly fulfilled one, and the report was sent.
C5_Witness ==
  /\ endpoint = "report" /\ Answered /\ response.status = 200
  /\ \E k \in 1..Len(orders) :
       /\ OutcomeOf("metadata", orders[k].id) = "failed"
       /\ \E j \in 1..Len(orders[k].line_items) :
            orders[k].line_items[j].fulfillment_status = "refunded"
       /\ response.body.detail[k].line_sum > 0

\* C6: in every row of detail, whichever path produced it,
\* billing_amount = line_sum + additional_charges.
C6_BillingIsLineSumPlusAdditional ==
  \A i \in 1..Len(Detail) :
    Detail[i].billing_amount = Detail[i].line_sum + Detail[i].additional_charges

\* C6 happens: a report holds a row of the metadata-failure path and a row of
\* the fulfillment-fallback path with line items and additional charges.
C6_Witness ==
  /\ response.kind = "report" /\ Len(orders) = 2
  /\ \E i, j \in 1..2 :
       /\ OutcomeOf("metadata", orders[i].id) = "failed"
       /\ OutcomeOf("fulfillment", orders[j].id) = "failed"
       /\ Detail[j].line_sum > 0 /\ Detail[j].additional_charges > 0

\* C7: in every row of detail, billing_amount <= 0 implies profit_margin = 0.
C7_NoBillingNoMargin ==
  \A i \in 1..Len(Detail) :
    Detail[i].billing_amount <= 0 => Detail[i].profit_margin = ZeroRatio

\* C7 happens: a row of the normal path has no billing but an actual spend.
C7_Witness ==
  \E i \in 1..Len(Detail) :
    /\ Detail[i].billing_amount <= 0 /\ Detail[i].actual_spend > 0
    /\ OutcomeOf("fulfillment", Detail[i].order_id) = "ok"

\* profit_margin as the data model defines it from a row's own fields.
DataModelMargin(r) ==
  IF r.billing_amount > 0
    THEN Ratio((r.billing_amount - r.actual_spend) * 100, r.billing_amount)
    ELSE ZeroRatio

\* C8 (as claimed): in every row of detail, however it was produced,
\* profit_margin is (billing_amount - actual_spend) / billing_amount * 100 when
\* billing_amount > 0 and 0 otherwise.
C8_MarginOfEveryRow ==
  \A i \in 1..Len(Detail) : Detail[i].profit_margin = DataModelMargin(Detail[i])

\* C8 (amended): a row whose order's metadata query succeeded has the data
\* model's profit_margin; a row whose metadata query failed has profit_margin 0
\* whatever its billing_amount.
C8_MarginByPath ==
  \A i \in 1..Len(Detail) :
    IF OutcomeOf("metadata", Detail[i].order_id) = "failed"
      THEN Detail[i].profit_margin = ZeroRatio
      ELSE Detail[i].profit_margin = DataModelMargin(Detail[i])

\* C8 happens: a report holds a row with a margin strictly between 0 and 100
\* and a metadata-failure row with a positive billing_amount.
C8_Witness ==
  /\ response.kind = "report"
  /\ \E i, j \in 1..Len(Detail) :
       /\ OutcomeOf("metadata", Detail[i].order_id) = "ok"
       /\ Detail[i].actual_spend > 0
       /\ Detail[i].billing_amount > Detail[i].actual_spend
       /\ OutcomeOf("metadata", Detail[j].order_id) = "failed"
       /\ Detail[j].billing_amount > 0

\* ----------------------------------------------------------------- grouping
\* The customer key and the month of a row, as the claims define them: the
\* email if present, else the id as text, else "unknown"; the year and month
\* of the order date in UTC.
ClaimedCustomerKey(r) ==
  IF r.customer_email # NoText THEN r.customer_email
  ELSE IF r.customer_id # 0 THEN ToStr(r.customer_id)
  ELSE STR_unknown

ClaimedMonth(r) ==
  LET u == ToUTC(r.order_date) IN Pad(u.y, 4) \o <<"-">> \o Pad(u.mo, 2)

\* The detail rows of a (customer key, month) pair.
RowsOf(customer, month) ==
  {i \in 1..Len(Detail) :
     ClaimedCustomerKey(Detail[i]) = customer /\ ClaimedMonth(Detail[i]) = month}

RECURSIVE SumOfRows(_, _)
SumOfRows(S, field) ==
  IF S = {} THEN 0
  ELSE LET i == CHOOSE i \in S : TRUE
       IN (IF field = "actual" THEN Detail[i].actual_spend ELSE Detail[i].billing_amount)
            + SumOfRows(S \ {i}, field)

Summary == response.body.summary

\* C9: for every group of summary, orders is the number of detail rows with the
\* group's customer key and month, and amount is the sum over those rows of
\* billing_amount under metric "billing" and of actual_spend under "actual".
C9_GroupOrdersAndAmount ==
  response.kind = "report" =>
    \A g \in 1..Len(Summary) :
      LET members == RowsOf(Summary[g].customer, Summary[g].month)
      IN /\ Summary[g].orders = Cardinality(members)
         /\ Summary[g].amount = SumOfRows(members, req.metric)

\* C9 happens: two January orders of one customer, each with line_sum 100.00
\* and additional_charges 10.00, give one group with orders 2 and amount 220.00
\* under metric "billing".
C9_Witness ==
  /\ response.kind = "report" /\ req.metric = "billing"
  /\ Len(Detail) = 2
  /\ \A i \in 1..2 : Detail[i].line_sum = 10000 /\ Detail[i].additional_charges = 1000
  /\ Len(Summary) = 1
  /\ Summary[1].month = <<"2","0","2","4","-","0","1">>
  /\ Summary[1].orders = 2 /\ Summary[1].amount = 22000

\* The composite key of a row.
KeyOfRow(r) == GroupKey(customerKeyOf(r), monthKey(r.order_date))

\* Customer keys and months chosen to collide if the key could: keys holding
\* the separator and a month.
SampleKeys ==
  { <<"a">>, <<"a","|","2","0","2","4","-","0","1">>,
    <<"a","|","2","0","2","4","-","0","1","|","2","0","2","4","-","0","1">>,
    <<"a","|">>, <<"|">> }

SampleMonths ==
  { monthKey([y |-> 2024, mo |-> m, d |-> 1, h |-> 0, off |-> 0]) : m \in {1, 2, 11} }

CompositeKeyIsInjective ==
  \A k1 \in SampleKeys, k2 \in SampleKeys, m1 \in SampleMonths, m2 \in SampleMonths :
    GroupKey(k1, m1) = GroupKey(k2, m2) => (k1 = k2 /\ m1 = m2)

\* C10: the groups of summary are the (customer key, month) pairs of the
\* detail rows: every row has exactly one group carrying its customer key and
\* month, every group has a row, so that rows equal in both land in one group
\* and rows differing in either land in different groups; and the composite
\* keys of two rows are equal only if both their customer keys and their
\* months are, also for customer keys that contain the separator.
C10_GroupingByCustomerAndMonth ==
  /\ CompositeKeyIsInjective
  /\ response.kind = "report" =>
       /\ \A i \in 1..Len(Detail) :
            LET customer == ClaimedCustomerKey(Detail[i])
                month    == ClaimedMonth(Detail[i])
            IN Cardinality({g \in 1..Len(Summary) :
                              Summary[g].customer = customer /\ Summary[g].month = month}) = 1
       /\ \A g \in 1..Len(Summary) :
            \E i \in 1..Len(Detail) :
              /\ ClaimedCustomerKey(Detail[i]) = Summary[g].customer
              /\ ClaimedMonth(Detail[i]) = Summary[g].month
       /\ \A i \in 1..Len(Detail) :
            LET key == KeyOfRow(Detail[i])
            IN \A j \in (i + 1)..Len(Detail) :
                 (key = KeyOfRow(Detail[j]))
                   <=> (/\ ClaimedCustomerKey(Detail[i]) = ClaimedCustomerKey(Detail[j])
                        /\ ClaimedMonth(Detail[i]) = ClaimedMonth(Detail[j]))

\* C10 happens: two orders of one customer, both created in January in the
\* shop's time zone but in different months in UTC, are in different groups.
C10_Witness ==
  /\ response.kind = "report" /\ Len(Detail) = 2
  /\ ClaimedCustomerKey(Detail[1]) = ClaimedCustomerKey(Detail[2])
  /\ Detail[1].order_date.mo = Detail[2].order_date.mo
  /\ ClaimedMonth(Detail[1]) # ClaimedMonth(Detail[2])
  /\ Len(Summary) = 2

\* Page requests issued so far, and whether the fetch loop has been left
\* through one of its two breaks.
PagesIssued == Cardinality(CallsOfKind("page"))

FetchEnded ==
  /\ pc # "page" /\ PagesIssued >= 1
  /\ calls[PagesIssued].outcome = "ok"

C11_StopRule ==
  PagesIssued >= 1 =>
    LET before == limit * (PagesIssued - 1)
    IN /\ Len(orders) = totalFetched
       /\ totalFetched <= MaxRecords + limit
       \* still looping: every page so far was full and the count has not
       \* passed the ceiling
       /\ pc = "page" => totalFetched = before /\ totalFetched <= MaxRecords
       \* left the loop: the last page is the first one that is short or
       \* takes the count past the ceiling, and processing goes on
       /\ FetchEnded =>
            /\ before <= MaxRecords
            /\ totalFetched - before <= limit
            /\ (totalFetched - before < limit) \/ (totalFetched > MaxRecords)
            /\ response.kind # "error"
            /\ endpoint = "orders" =>
                 response.status = 200 /\ response.body.count = totalFetched
            /\ endpoint = "report" =>
                 IF totalFetched = 0 THEN response.status = 200
                 ELSE pc = "metadata" /\ idx = 1 /\ response = NoResponse

\* C11: against a shop answering every page request, the fetch loop of both
\* handlers is left after finitely many pages: right after the first page of
\* fewer than 250 orders or the first page taking the count past 10,000; the
\* ceiling is no error, processing continues with the orders collected, and
\* never more than 10,000 + 250 orders are collected.
C11_FetchLoopTerminates ==
  /\ []C11_StopRule
  /\ (pc = "page") ~> (pc # "page")

\* C11 happens: the report handler left the loop at the ceiling with 10,250
\* of the shop's orders and went on to the first order's enrichment.
C11_Witness ==
  /\ endpoint = "report" /\ FetchEnded
  /\ totalFetched = MaxRecords + limit /\ matching > totalFetched
  /\ pc = "metadata"

\* Two page requests carry the same filter.
SameFilter(c, d) ==
  /\ c.kind = d.kind /\ c.limit = d.limit /\ c.customer_id = d.customer_id
  /\ c.created_at_min = d.created_at_min /\ c.created_at_max = d.created_at_max

\* The matching orders of the shop, in ascending id.
MatchingOrders == [k \in 1..matching |-> ShopOrder(k)]

\* C12: the first page request carries no since_id; every later one carries
\* the id of the last order of the page before it and the same filter; and
\* when the shop answers each request with the up-to-250 matching orders of
\* lowest id above since_id, a loop left on a page of fewer than 250 orders
\* has collected the N matching orders, each once (totalFetched = N).
C12_CursorPagination ==
  PagesIssued >= 1 =>
    /\ CallsOfKind("page") = 1..PagesIssued
    /\ calls[1].since_id = 0
    /\ \A p \in 2..PagesIssued :
         /\ calls[p].since_id = orders[limit * (p - 1)].id
         /\ SameFilter(calls[p], calls[1])
    /\ (FetchEnded /\ totalFetched - limit * (PagesIssued - 1) < limit) =>
         /\ orders = MatchingOrders
         /\ totalFetched = matching

\* C12 happens: 10,000 matching orders were collected over 40 full pages and
\* an empty 41st one by the orders handler.
C12_Witness ==
  /\ endpoint = "orders" /\ FetchEnded /\ PagesIssued = 41
  /\ matching = MaxRecords /\ totalFetched = matching
  /\ calls[41].since_id = ShopId(MaxRecords)
  /\ response.status = 200 /\ response.body.orders = MatchingOrders

\* C13: once a page request of POST /api/report has failed, on the first page
\* or a later one, the request is answered with an error whose status is the
\* upstream's when it gave one and 500 otherwise; the response has no body with
\* summary or detail, no row was built from the pages fetched before, and no
\* metadata or fulfillment call has been issued.
C13_FetchFailureAborts ==
  endpoint = "report" =>
    \A p \in CallsOfKind("page") :
      calls[p].outcome = "failed" =>
        /\ p = Len(calls)
        /\ pc = "done"
        /\ response.kind = "error"
        /\ response.status = (IF calls[p].status # 0 THEN calls[p].status ELSE 500)
        /\ "body" \notin DOMAIN response
        /\ rows = <<>>
        /\ CallsOfKind("metadata") = {} /\ CallsOfKind("fulfillment") = {}

\* C13 happens: the third page request failed with the upstream's 429 after
\* two full pages had been fetched.
C13_Witness ==
  /\ endpoint = "report" /\ Len(calls) = 3
  /\ calls[3].kind = "page" /\ calls[3].outcome = "failed" /\ calls[3].status = 429
  /\ Len(orders) = 2 * limit
  /\ response.status = 429

\* The calls still awaiting their answer.
Outstanding == {i \in 1..Len(calls) : calls[i].outcome = "pending"}

\* At most one call is outstanding, and it is the last one issued.
OneOutstanding == Outstanding \subseteq {Len(calls)}

\* The metadata query of the k-th order is issued with the rows of the k - 1
\* orders before it appended.
RowBeforeNextOrder ==
  /\ Cardinality(CallsOfKind("metadata")) <= Len(rows) + 1
  /\ pc \in {"metadata", "fulfillment"} => Len(rows) = idx - 1

\* A step that issues the first call of a later order than the first is taken
\* from the end of the 50 ms delay.
DelayBeforeNextOrder ==
  (/\ Len(calls') = Len(calls) + 1
   /\ calls'[Len(calls')].kind = "metadata"
   /\ idx >= 1)
    => pc = "delay"

\* C14: within one POST /api/report request at most one upstream call is
\* outstanding at any time, the first enrichment call of order k+1 is issued
\* only after the row of order k was appended, and the 50 ms delay elapses
\* after the enrichment of every order before the next order's first call.
C14_SequentialWithDelay ==
  /\ [](OneOutstanding /\ RowBeforeNextOrder)
  /\ [][DelayBeforeNextOrder]_vars

\* The calls of this kind issued for the order with this id.
CallsFor(kind, id) == {i \in CallsOfKind(kind) : calls[i].order = id}

\* C15: in one POST /api/report request no two page requests carry the same
\* cursor and a failed one is the last call, answered by the error response;
\* each fetched order's metadata query is issued at most once, and exactly once
\* by the time the order is handled; its fulfillment query is issued exactly
\* once when the metadata query succeeded and never otherwise; and a failed
\* enrichment call is followed by the order's row, not by the same call again.
C15_NoRetry ==
  endpoint = "report" =>
    /\ \A i, j \in CallsOfKind("page") :
         i # j => calls[i].since_id # calls[j].since_id
    /\ \A i \in CallsOfKind("page") :
         calls[i].outcome = "failed" => i = Len(calls) /\ response.kind = "error"
    /\ \A i \in CallsOfKind("metadata") \cup CallsOfKind("fulfillment") :
         \E k \in 1..Len(orders) : orders[k].id = calls[i].order
    /\ \A k \in 1..Len(orders) :
         LET id == orders[k].id
             m  == CallsFor("metadata", id)
             f  == CallsFor("fulfillment", id)
         IN /\ Cardinality(m) <= 1
            /\ (response.kind # "error" /\ k <= OrdersHandled) => Cardinality(m) = 1
            /\ IF OutcomeOf("metadata", id) = "ok"
                 THEN Cardinality(f) = 1
                 ELSE f = {}
            /\ ("failed" \in {OutcomeOf("metadata", id), OutcomeOf("fulfillment", id)})
                 => (Len(rows) >= k /\ rows[k].order_id = id)

\* C15 happens: a report of two orders, the first one's metadata query failed,
\* the second one's fulfillment query failed, three enrichment calls in all.
C15_Witness ==
  /\ response.kind = "report" /\ Len(orders) = 2
  /\ OutcomeOf("metadata", orders[1].id) = "failed"
  /\ OutcomeOf("metadata", orders[2].id) = "ok"
  /\ OutcomeOf("fulfillment", orders[2].id) = "failed"
  /\ Len(calls) = 4

\* What a request produces when it runs alone, as a function of its own
\* request and of the upstream's answers to its own calls (the log cs).
RECURSIVE AloneOrders(_, _)
AloneOrders(cs, i) ==
  IF i > Len(cs) THEN <<>>
  ELSE (IF cs[i].kind = "page" /\ cs[i].outcome = "ok" THEN cs[i].answer ELSE <<>>)
         \o AloneOrders(cs, i + 1)

CallOf(cs, kind, id) ==
  cs[CHOOSE i \in 1..Len(cs) : cs[i].kind = kind /\ cs[i].order = id]

AloneRow(cs, o) ==
  LET m == CallOf(cs, "metadata", o.id)
  IN IF m.outcome = "failed" THEN DegradedRow(o)
     ELSE LET f == CallOf(cs, "fulfillment", o.id)
          IN NormalRow(o, orderMetafieldsOf(m.answer),
                       IF f.outcome = "ok" THEN FulfillmentLineSum(f.answer)
                       ELSE FulfillmentFallbackLineSum(0, o.line_items))

AloneResponse(c) ==
  LET os     == AloneOrders(c.calls, 1)
      failed == {i \in 1..Len(c.calls) :
                   c.calls[i].kind = "page" /\ c.calls[i].outcome = "failed"}
  IN IF c.endpoint = "report"
       THEN IF ReportValidation(c.req.start, c.req.end, c.req.metric) # "ok"
              THEN BadRequest(ReportValidation(c.req.start, c.req.end, c.req.metric))
            ELSE IF ~NewDate(c.req.start).valid \/ ~NewDate(c.req.end).valid
              THEN ErrorResponse(0)
            ELSE IF failed # {}
              THEN ErrorResponse(c.calls[CHOOSE i \in failed : TRUE].status)
            ELSE [status |-> 200, kind |-> "report",
                  body |-> ReportBody([k \in 1..Len(os) |-> AloneRow(c.calls, os[k])], c.req)]
       ELSE IF OrdersValidation(c.req.start, c.req.end) # "ok"
              THEN BadRequest(OrdersValidation(c.req.start, c.req.end))
            ELSE IF failed # {}
              THEN ErrorResponse(c.calls[CHOOSE i \in failed : TRUE].status)
            ELSE [status |-> 200, kind |-> "orders",
                  body |-> [orders |-> os, count |-> Len(os),
                            dateRange |-> [start |-> c.req.start, end |-> c.req.end],
                            customerId |-> c.req.customerId]]

\* The requests in flight: the one whose turn it is and the parked one.
InFlight == {Context(Running)} \cup (IF parked.id # 0 THEN {parked} ELSE {})

\* C16: with two requests (report and/or orders) interleaved at every await,
\* the response of each is the one it produces alone from its own request and
\* the answers to its own calls, and customerInfo stays the table the module
\* was loaded with.
C16_NoSharedState ==
  /\ customerInfo = CustomerTable
  /\ \A c \in InFlight : c.pc = "done" => c.response = AloneResponse(c)

\* C16 happens: a report of one order was sent while the other request, a
\* report of another order, was suspended at its fulfillment query.
C16_Witness ==
  /\ parked.id # 0 /\ parked.pc = "fulfillment" /\ parked.endpoint = "report"
  /\ response.kind = "report" /\ Len(Detail) = 1
  /\ parked.orders[1].id # orders[1].id
  /\ Detail[1].customer_name # NoText

\* C17: in every successful report, analytics.totalOrders is the number of
\* detail rows and the sum of the groups' orders, analytics.totalRevenue is
\* the sum of the selected metric over the detail rows and the sum of the
\* groups' amounts, analytics.uniqueCustomers is the number of distinct
\* customer keys among the rows, and metadata.totalRecords and
\* metadata.summaryRecords are the lengths of detail and summary.
C17_AnalyticsTotals ==
  response.kind = "report" =>
    LET a == response.body.analytics
        m == response.body.metadata
    IN /\ a.totalOrders = Len(Detail)
       /\ a.totalOrders = SumSeq([g \in 1..Len(Summary) |-> Summary[g].orders])
       /\ a.totalRevenue = SumOfRows(1..Len(Detail), req.metric)
       /\ a.totalRevenue = SumSeq([g \in 1..Len(Summary) |-> Summary[g].amount])
       /\ a.uniqueCustomers =
            Cardinality({ClaimedCustomerKey(Detail[i]) : i \in 1..Len(Detail)})
       /\ m.totalRecords = Len(Detail)
       /\ m.summaryRecords = Len(Summary)

\* C17 happens: two orders of one customer in two months: 2 orders, 2 groups,
\* 1 customer, a revenue that is the sum of two positive actual spends.
C17_Witness ==
  /\ response.kind = "report" /\ req.metric = "actual"
  /\ Len(Detail) = 2 /\ Len(Summary) = 2
  /\ response.body.analytics.uniqueCustomers = 1
  /\ response.body.analytics.totalOrders = 2
  /\ Detail[1].actual_spend > 0 /\ Detail[2].actual_spend > 0
  /\ response.body.analytics.totalRevenue = Detail[1].actual_spend + Detail[2].actual_spend

\* The number of a month text "YYYY-MM": months since year 0.
DigitValue(c) == CHOOSE d \in 0..9 : Digit(d) = c

MonthOrdinal(m) ==
  (1000 * DigitValue(m[1]) + 100 * DigitValue(m[2]) + 10 * DigitValue(m[3])
     + DigitValue(m[4])) * 12
  + 10 * DigitValue(m[6]) + DigitValue(m[7])

\* The (customer key, month) pairs of detail and of summary.
DetailPairs ==
  {<<ClaimedCustomerKey(Detail[i]), ClaimedMonth(Detail[i])>> : i \in 1..Len(Detail)}

SummaryPairs == {<<Summary[g].customer, Summary[g].month>> : g \in 1..Len(Summary)}

\* C18: summary has exactly one entry per distinct (customer key, month) pair
\* of detail, in ascending order of month and, within a month, in ascending
\* order of customer key (the order of localeCompare).
C18_SummaryUniqueAndSorted ==
  response.kind = "report" =>
    /\ SummaryPairs = DetailPairs
    /\ Len(Summary) = Cardinality(DetailPairs)
    /\ \A g \in 1..(Len(Summary) - 1) :
         LET a == Summary[g]
             b == Summary[g + 1]
         IN \/ MonthOrdinal(a.month) < MonthOrdinal(b.month)
            \/ /\ a.month = b.month
               /\ Compare(CollationRank, a.customer, b.customer) < 0

\* C18 happens: the rows of customer a@x and then of customer 8, both of
\* January, give a summary with 8 first.
C18_Witness ==
  /\ response.kind = "report" /\ Len(Detail) = 2 /\ Len(Summary) = 2
  /\ ClaimedCustomerKey(Detail[1]) = Summary[2].customer
  /\ ClaimedCustomerKey(Detail[2]) = Summary[1].customer
  /\ Summary[1].customer # Summary[2].customer
  /\ Summary[1].month = Summary[2].month

\* a < b for two fractions of positive denominator.
RatioLess(a, b) == a.num * b.den < b.num * a.den

\* C19: each group's total_billing and total_actual are the sums of
\* billing_amount and actual_spend over the group's rows under either metric,
\* and its profit_margin is (total_billing - total_actual) / total_billing x 100
\* to the nearest hundredth when total_billing > 0, and 0 otherwise.
C19_GroupMarginFromTotals ==
  response.kind = "report" =>
    \A g \in 1..Len(Summary) :
      LET members == RowsOf(Summary[g].customer, Summary[g].month)
          tb      == SumOfRows(members, "billing")
          ta      == SumOfRows(members, "actual")
          pm      == Summary[g].profit_margin
      IN /\ Summary[g].total_billing = tb
         /\ Summary[g].total_actual = ta
         /\ 100 % pm.den = 0
         /\ IF tb > 0
              THEN 2 * Abs(Hundredths(pm) * tb - 10000 * (tb - ta)) <= tb
              ELSE pm = ZeroRatio

\* C19 happens: under metric "actual", a group of two rows has a margin above
\* the margin of each of its rows, so it is no average of them.
C19_Witness ==
  /\ response.kind = "report" /\ req.metric = "actual"
  /\ Len(Detail) = 2 /\ Len(Summary) = 1
  /\ Summary[1].total_actual > 0
  /\ \A i \in 1..2 : RatioLess(Detail[i].profit_margin, Summary[1].profit_margin)

\* What the line items contribute as step 3 states it: nothing for a removed,
\* cancelled, refunded or returned item, price x (quantity - fulfillable
\* quantity) for any other.
RECURSIVE ClaimedItemsSum(_)
ClaimedItemsSum(items) ==
  IF items = <<>> THEN 0
  ELSE LET li == Head(items)
       IN (IF li.fulfillment_status \in {"removed", "cancelled", "refunded", "returned"}
             THEN 0
             ELSE NumberOr0(li.price)
                    * (NumberOr0(li.quantity) - NumberOr0(li.fulfillable_quantity)))
          + ClaimedItemsSum(Tail(items))

\* C20: the row of an order whose metadata query succeeded and whose
\* fulfillment query failed has the line_sum of the order's own line items
\* alone (skipped statuses nothing, any other item price x (quantity -
\* fulfillable_quantity)), and the additional_charges and actual_spend parsed
\* from the metafields its metadata query returned.
C20_FulfillmentFailureRow ==
  \A k \in 1..Len(orders) :
    (/\ endpoint = "report"
     /\ OutcomeOf("metadata", orders[k].id) = "ok"
     /\ OutcomeOf("fulfillment", orders[k].id) = "failed")
      => LET fetched == orderMetafieldsOf(CallOf(calls, "metadata", orders[k].id).answer)
         IN /\ Len(Detail) >= k
            /\ Detail[k].order_id = orders[k].id
            /\ Detail[k].line_sum = ClaimedItemsSum(orders[k].line_items)
            /\ Detail[k].additional_charges = parseAdditionalCharges(fetched)
            /\ Detail[k].actual_spend = parseActualTotal(fetched)
            /\ Detail[k].billing_amount
                 = ClaimedItemsSum(orders[k].line_items) + Detail[k].additional_charges

\* C20 happens: order 2 (3 x 5.00 with 1 still to fulfil, and a refunded item)
\* with the seeded metafields and a failed fulfillment query: line_sum 10.00,
\* additional_charges 10.00, actual_spend 80.00.
C20_Witness ==
  /\ response.kind = "report"
  /\ \E k \in 1..Len(Detail) :
       /\ Detail[k].order_id = 2
       /\ OutcomeOf("metadata", 2) = "ok" /\ OutcomeOf("fulfillment", 2) = "failed"
       /\ Detail[k].line_sum = 1000
       /\ Detail[k].additional_charges = 1000
       /\ Detail[k].actual_spend = 8000

\* What the fulfillments contribute as step 2 states it: for every SUCCESS
\* fulfillment, every item with quantity > 0 and unit price (total / quantity)
\* > 0 gives unit price x quantity, which is its total.
RECURSIVE ClaimedEdgesSum(_)
ClaimedEdgesSum(items) ==
  IF items = <<>> THEN 0
  ELSE LET q == NumberOr0(Head(items).quantity)
           t == NumberOr0(Head(items).amount)
       IN (IF q > 0 /\ t > 0 THEN t ELSE 0) + ClaimedEdgesSum(Tail(items))

RECURSIVE ClaimedFulfillmentsSum(_)
ClaimedFulfillmentsSum(fs) ==
  IF fs = <<>> THEN 0
  ELSE (IF Head(fs).status = "SUCCESS" THEN ClaimedEdgesSum(Head(fs).items) ELSE 0)
       + ClaimedFulfillmentsSum(Tail(fs))

\* The orders whose two queries were both answered, with the fulfillment answer.
BothAnswered(k) ==
  /\ endpoint = "report"
  /\ OutcomeOf("metadata", orders[k].id) = "ok"
  /\ OutcomeOf("fulfillment", orders[k].id) = "ok"

FulfillmentAnswerOf(k) == CallOf(calls, "fulfillment", orders[k].id).answer

\* C21: when both queries of an order succeed, its line_sum is the sum over
\* the SUCCESS fulfillments and their items of positive quantity and positive
\* unit price of unit price x quantity; other fulfillments and other items
\* contribute nothing, and the order's own line items are not used.
C21_LineSumFromFulfillments ==
  \A k \in 1..Len(orders) :
    BothAnswered(k) =>
      /\ Len(Detail) >= k
      /\ Detail[k].order_id = orders[k].id
      /\ Detail[k].line_sum =
           (IF FulfillmentAnswerOf(k).hasOrder
              THEN ClaimedFulfillmentsSum(FulfillmentAnswerOf(k).fulfillments)
              ELSE 0)

\* C21 happens: order 2, whose line items would give 10.00, with two SUCCESS
\* fulfillments (10.00 for 3 units, a negative total, a negative quantity,
\* 2.50) and a FAILURE one: line_sum 12.50.
C21_Witness ==
  /\ response.kind = "report" /\ Len(orders) = 1 /\ orders[1].id = 2
  /\ BothAnswered(1)
  /\ Len(FulfillmentAnswerOf(1).fulfillments) = 3
  /\ ClaimedItemsSum(orders[1].line_items) = 1000
  /\ Detail[1].line_sum = 1250

\* A fulfillment answer without usable data: no order object, no
\* fulfillments, or no fulfillment of status SUCCESS.
Unusable(answer) ==
  \/ ~answer.hasOrder
  \/ answer.fulfillments = <<>>
  \/ \A i \in 1..Len(answer.fulfillments) : answer.fulfillments[i].status # "SUCCESS"

\* C22: when the fulfillment query is answered without usable data, the row
\* has line_sum = 0 and billing_amount = additional_charges, whatever the
\* order's own line items show: the line-item fallback is not taken.
C22_NoFallbackOnEmptyAnswer ==
  \A k \in 1..Len(orders) :
    (BothAnswered(k) /\ Unusable(FulfillmentAnswerOf(k))) =>
      /\ Len(Detail) >= k
      /\ Detail[k].order_id = orders[k].id
      /\ Detail[k].line_sum = 0
      /\ Detail[k].billing_amount = Detail[k].additional_charges

\* C22 happens: order 1, whose line items show 2 units of 50.00 fulfilled, with
\* the seeded metafields and an answer holding a CANCELLED and a PENDING
\* fulfillment only: line_sum 0, billing_amount 10.00.
C22_Witness ==
  /\ response.kind = "report" /\ Len(orders) = 1 /\ orders[1].id = 1
  /\ BothAnswered(1)
  /\ FulfillmentAnswerOf(1).hasOrder /\ Len(FulfillmentAnswerOf(1).fulfillments) = 2
  /\ Unusable(FulfillmentAnswerOf(1))
  /\ ClaimedItemsSum(orders[1].line_items) = 10000
  /\ Detail[1].line_sum = 0
  /\ Detail[1].additional_charges = 1000 /\ Detail[1].billing_amount = 1000

====
